---- MODULE Spec2Model ----
(***************************************************************************)
(* Model of beam_profiler_v1.2.py: the capture thread (main.capture_image) *)
(* running against the Qt event loop (the button handlers of class main),  *)
(* sharing the module-level AOI object and the attributes of the widget.   *)
(*                                                                         *)
(* Threads: "cap" is the threading.Timer thread started by camera_stream,  *)
(* "ui" is the Qt event loop, which runs one handler at a time.  A step of *)
(* the model is one or a few adjacent source lines of one thread; threads  *)
(* interleave between steps.  Every step is a possible schedule of the     *)
(* interpreter (a thread may always run several bytecodes undisturbed).    *)
(*                                                                         *)
(* Coordinates (AOI bounds, axis limits) are floats in the program; here   *)
(* they are integers counting HALF pixels, so that int() truncation in the *)
(* crop is modelled (PyInt).  Waists are integers in units of 1e-4 mm.     *)
(***************************************************************************)
EXTENDS Integers, Sequences, FiniteSets, TLC

\* ---------------------------------------------------------------- bounds
\* Sensor shape in pixels (cameraAPI.shape, read from the driver; 1280 x 1024
\* on the DCC1545M the defaults of AOI_rect are written for).  Scaled down.
SensorW == 3
SensorH == 2
\* Capture-loop iterations begun, and UI commands begun, in one behaviour.
MaxCycles == 1
MaxCommands == 2
\* Values pushed into the histories in one behaviour.
MaxPushes == 2
\* The history check: pushes beyond the capacity, and how many of the pushed
\* values may differ from the baseline waist 1.
MaxOverflow == 5
MaxMarked == 1

\* ------------------------------------------------------ program constants
HistLen == 20
PixelSize == 52
FullScale == 255

Threads == {"cap", "ui"}

\* ------------------------------------------------------------ arithmetic
Max2(a, b) == IF a >= b THEN a ELSE b
Min2(a, b) == IF a <= b THEN a ELSE b

RECURSIVE SeqSum(_)
SeqSum(s) == IF Len(s) = 0 THEN 0 ELSE Head(s) + SeqSum(Tail(s))

RECURSIVE SeqMax(_)
\* max of a non-empty sequence
SeqMax(s) == IF Len(s) = 1 THEN s[1] ELSE Max2(Head(s), SeqMax(Tail(s)))

\* int(v) of a coordinate kept in half pixels: truncation towards zero.
PyInt(v) == IF v >= 0 THEN v \div 2 ELSE -((-v) \div 2)

\* A slice bound i against an axis of length n, as numpy normalises it.
SliceIdx(n, i) == IF i < 0 THEN Max2(i + n, 0) ELSE Min2(i, n)

\* ---------------------------------------------------------------- frames
\* A 2-D array: h rows, w columns, px[r][c]; either extent may be 0.
SpotFrame ==
  [h |-> SensorH, w |-> SensorW,
   px |-> [r \in 1..SensorH |-> [c \in 1..SensorW |->
             IF r = 1 /\ c = 2 THEN FullScale ELSE 0]]]
FlatFrame ==
  [h |-> SensorH, w |-> SensorW,
   px |-> [r \in 1..SensorH |-> [c \in 1..SensorW |-> 10]]]
\* What the sensor may deliver on a capture.
Scenes == {SpotFrame, FlatFrame}

\* self.backgroundImage = 0 (line 127): the int, not an array; kept as a
\* value no capture returns.
NoBackground == [h |-> 0, w |-> 0, px |-> <<>>]
\* An attribute not assigned yet.
NoFrame == [h |-> -1, w |-> -1, px |-> <<>>]

\* A difference taken in uint8, which wraps below zero; Thm_C15 does not
\* hold of it.
SubtractU8(F, B) ==
  IF B = NoBackground THEN F
  ELSE [F EXCEPT !.px = [r \in 1..F.h |-> [c \in 1..F.w |->
                           (F.px[r][c] - B.px[r][c]) % 256]]]
\* F - B, where B is the int 0 or a frame of the sensor's shape.
Subtract(F, B) ==
  IF B = NoBackground THEN F
  ELSE [F EXCEPT !.px = [r \in 1..F.h |-> [c \in 1..F.w |-> F.px[r][c] - B.px[r][c]]]]

\* (F + B).astype(np.uint8)
AddU8(F, B) ==
  [F EXCEPT !.px = [r \in 1..F.h |-> [c \in 1..F.w |->
      (F.px[r][c] + (IF B = NoBackground THEN 0 ELSE B.px[r][c])) % 256]]]

\* F[int(ymin):int(ymax), int(xmin):int(xmax)]
Crop(F, ymin, ymax, xmin, xmax) ==
  LET r0 == SliceIdx(F.h, PyInt(ymin))
      r1 == SliceIdx(F.h, PyInt(ymax))
      c0 == SliceIdx(F.w, PyInt(xmin))
      c1 == SliceIdx(F.w, PyInt(xmax))
      h  == Max2(r1 - r0, 0)
      w  == Max2(c1 - c0, 0)
  IN [h |-> h, w |-> w,
      px |-> [r \in 1..h |-> [c \in 1..w |-> F.px[r0 + r][c0 + c]]]]

\* np.sum(F, axis=0): one sum per column; np.sum(F, axis=1): one per row.
SumAxis0(F) == [c \in 1..F.w |-> SeqSum([r \in 1..F.h |-> F.px[r][c]])]
SumAxis1(F) == [r \in 1..F.h |-> SeqSum(F.px[r])]

\* float64 nan, inf and -inf, as integers no finite quotient reaches.
NaN == 1000001
PosInf == 1000000
NegInf == -1000000
\* v * (255 / m) in float64: a zero m gives inf (numpy warns, it does not
\* raise), and 0 * inf is nan.  A finite quotient is kept as its floor.
Rescale(v, m) ==
  IF m = 0 THEN (IF v = 0 THEN NaN ELSE IF v > 0 THEN PosInf ELSE NegInf)
  ELSE IF m > 0 THEN (v * FullScale) \div m
  ELSE ((-v) * FullScale) \div (-m)
\* s *= 255 / s.max(), s non-empty
RescaleSeq(s) == [i \in 1..Len(s) |-> Rescale(s[i], SeqMax(s))]

\* ----------------------------------------------------------------- AOI
\* AOI_rect.__init__ and On_reset_AOI: the full sensor (in half pixels).
FullAOI == [xmin |-> 0, xmax |-> 2 * SensorW, ymin |-> 0, ymax |-> 2 * SensorH]

\* Axis limits the navigation toolbar can leave behind: a sub-window with
\* a fractional edge and width (0.5 to SensorW - 1 pixels), a window dragged
\* past the left edge, a window zoomed out past the right edge, and the full
\* view.
ZoomWindows ==
  { [x |-> <<1, 2 * SensorW - 2>>, y |-> <<0, 2>>],
    [x |-> <<-2, 2>>,              y |-> <<0, 2 * SensorH>>],
    [x |-> <<0, 2 * SensorW + 2>>, y |-> <<2, 2 * SensorH>>],
    [x |-> <<0, 2 * SensorW>>,     y |-> <<0, 2 * SensorH>>] }

\* ------------------------------------------------------------- histories
ZeroHist == [i \in 1..HistLen |-> 0]
\* The shift the other way, np.roll(a, -1), of which Thm_C1 does not hold.
RollLeft(a) == [i \in 1..Len(a) |-> IF i = Len(a) THEN a[1] ELSE a[i + 1]]
\* np.roll(a, 1)
Roll(a) == [i \in 1..Len(a) |-> IF i = 1 THEN a[Len(a)] ELSE a[i - 1]]

\* Waists (in pixels) a successful curve_fit may return.
Waists == {1, 2}

NoLocals == [xsrc |-> NoFrame, ysrc |-> NoFrame, wx |-> 0, wy |-> 0, rows |-> <<>>,
             flag |-> 0]
NoOverlay == [w |-> -1, n |-> 0]
NoText == <<>>
NoExpect == <<>>

VARIABLES
  pc,              \* position of each thread
  loc,             \* locals of each thread
  run_stream,      \* main.run_stream
  exited,          \* the close event was accepted: the process is gone
  AOI,             \* the module-level AOI object
  axlim,           \* self.ax limits: x |-> get_xlim(), y |-> get_ylim()
  backgroundImage, \* main.backgroundImage
  continuous,      \* main.continuous
  waistListX, waistListY,
  camBuf,          \* the driver's image memory (cameraAPI.ppcImgMem)
  imdata_full, imdata,
  hintplot, vintplot,  \* rescaled projections handed to the plot
  hintfit, vintfit,    \* fit overlays
  waistText,           \* waistTextBox
  wxplot, wyplot,      \* history handed to the plot
  saved,               \* files written by saveFileDialog
  nCycles, nCmds,  \* iterations and commands begun (bounded)
  nToggles,        \* history: toggle commands completed
  expect,          \* history: per call of calc_waists, the results as they
                   \* would be without that call's own writes
  aoiPrev, aoiDone,\* history: AOI before / after the latest AOI handler
  pushedX, pushedY \* history: every value pushed, oldest first

vars == <<pc, loc, run_stream, exited, AOI, axlim, backgroundImage, continuous,
          waistListX, waistListY, camBuf, imdata_full, imdata, hintplot,
          vintplot, hintfit, vintfit, waistText, wxplot, wyplot, saved,
          nCycles, nCmds, nToggles, expect, aoiPrev, aoiDone, pushedX, pushedY>>

\* The attributes calc_waists publishes.
Results == <<waistListX, waistListY, hintfit, vintfit, waistText>>

capData == <<imdata_full, imdata, hintplot, vintplot, wxplot, wyplot>>
fitData == <<waistListX, waistListY, hintfit, vintfit, waistText, pushedX, pushedY>>
aoiVars == <<AOI, axlim, aoiPrev, aoiDone>>
uiData  == <<backgroundImage, continuous, saved>>
ctl     == <<run_stream, exited>>
counters == <<nCycles, nCmds, nToggles>>

\* Positions inside calc_waists (either thread).
CalcPcs == {"c_xdata", "c_ydata", "c_fitx", "c_fity", "c_overlay", "c_roll",
            "c_set", "c_except"}
InCalc(p) == p \in CalcPcs

\* Where calc_waists returns to: the event loop for the button; in the
\* capture thread lines 348-357, which draw what the plot lines hold and
\* change nothing the model keeps, and then line 312.
CalcReturn(t) == IF t = "cap" THEN "loop" ELSE "idle"

\* History variable expect: set to the results on entry to calc_waists,
\* follows every write another thread makes, dropped on return.
Track(t) ==
  expect' = [u \in Threads |->
    IF ~InCalc(pc'[u]) THEN NoExpect
    ELSE IF ~InCalc(pc[u]) THEN Results'
    ELSE IF u = t THEN expect[u]
    ELSE [i \in 1..5 |-> IF Results'[i] # Results[i] THEN Results'[i]
                                                      ELSE expect[u][i]]]

Goto(t, p) == pc' = [pc EXCEPT ![t] = p]

\* Positions of the capture thread inside an iteration of the loop.
CyclePcs == {"freeze", "store", "crop_rows", "crop_cols", "plots", "mode"}
                \cup CalcPcs

\* Bound: an iteration, or a call of calc_waists from the button, begins
\* only while fewer than max values are pushed or may yet be pushed by what
\* is under way.
PushBudget(max) ==
  Len(pushedX) + (IF pc["cap"] \in CyclePcs THEN 1 ELSE 0)
               + (IF InCalc(pc["ui"]) THEN 1 ELSE 0) < max

Init ==
  /\ pc = [t \in Threads |-> IF t = "cap" THEN "unstarted" ELSE "idle"]
  /\ loc = [t \in Threads |-> NoLocals]
  /\ run_stream = FALSE
  /\ exited = FALSE
  /\ AOI = FullAOI
  /\ axlim = <<>>
  /\ backgroundImage = NoBackground
  /\ continuous = 0
  /\ waistListX = ZeroHist
  /\ waistListY = ZeroHist
  /\ camBuf \in Scenes
  /\ imdata_full = NoFrame
  /\ imdata = NoFrame
  /\ hintplot = <<>>
  /\ vintplot = <<>>
  /\ hintfit = NoOverlay
  /\ vintfit = NoOverlay
  /\ waistText = NoText
  /\ wxplot = <<>>
  /\ wyplot = <<>>
  /\ saved = [main |-> NoFrame, bg |-> NoFrame]
  /\ nCycles = 0
  /\ nCmds = 0
  /\ nToggles = 0
  /\ expect = [t \in Threads |-> NoExpect]
  /\ aoiPrev = FullAOI
  /\ aoiDone = FullAOI
  /\ pushedX = <<>>
  /\ pushedY = <<>>

\* ------------------------------------------------------- capture thread
\* What is_FreezeVideo leaves in the driver's memory: a new frame, or, on a
\* timeout (waittime is 10 ms), the old contents; the return code is dropped.
FreezeOutcomes == Scenes \cup {camBuf}

ZeroOverlay(n) == [w |-> 0, n |-> n]

\* __init__, lines 203-204: set the flag, start the timer thread.
Start ==
  /\ pc["cap"] = "unstarted"
  /\ ~exited
  /\ run_stream' = TRUE
  /\ Goto("cap", "setup")
  /\ UNCHANGED <<loc, exited, aoiVars, uiData, fitData, capData, camBuf, counters>>
  /\ Track("cap")

\* capture_image, lines 276-310: first image, axes and plot lines.
CapSetup ==
  /\ pc["cap"] = "setup"
  /\ ~exited
  /\ \E s \in FreezeOutcomes :
        /\ camBuf' = s
        /\ imdata' = s
        /\ hintplot' = [i \in 1..s.w |-> 0]
        /\ vintplot' = SumAxis1(s)
        /\ hintfit' = ZeroOverlay(s.w)
        /\ vintfit' = ZeroOverlay(s.h)
  /\ axlim' = [x |-> <<AOI.xmin, AOI.xmax>>, y |-> <<AOI.ymin, AOI.ymax>>]
  /\ wxplot' = waistListX
  /\ wyplot' = waistListY
  /\ Goto("cap", "loop")
  /\ UNCHANGED <<loc, ctl, AOI, aoiPrev, aoiDone, uiData, imdata_full,
                 waistListX, waistListY, waistText, pushedX, pushedY, counters>>
  /\ Track("cap")

\* A loop that goes round whatever the flag says, of which Thm_C7 does not
\* hold.
CapLoopEnterUnguarded ==
  /\ pc["cap"] = "loop"
  /\ ~exited
  /\ nCycles < MaxCycles
  /\ PushBudget(MaxPushes)
  /\ nCycles' = nCycles + 1
  /\ Goto("cap", "freeze")
  /\ UNCHANGED <<loc, ctl, aoiVars, uiData, fitData, capData, camBuf, nCmds, nToggles>>
  /\ Track("cap")
\* line 312, flag set: the next iteration begins.
CapLoopEnter ==
  /\ pc["cap"] = "loop"
  /\ ~exited
  /\ run_stream
  /\ nCycles < MaxCycles
  /\ PushBudget(MaxPushes)
  /\ nCycles' = nCycles + 1
  /\ Goto("cap", "freeze")
  /\ UNCHANGED <<loc, ctl, aoiVars, uiData, fitData, capData, camBuf, nCmds, nToggles>>
  /\ Track("cap")

\* A loop that, seeing the flag cleared, sets it and starts over, of which
\* Thm_C9 does not hold.
CapLoopRestart ==
  /\ pc["cap"] = "loop"
  /\ ~exited
  /\ ~run_stream
  /\ run_stream' = TRUE
  /\ Goto("cap", "setup")
  /\ UNCHANGED <<loc, exited, aoiVars, uiData, fitData, capData, camBuf, counters>>
  /\ Track("cap")
\* line 312, flag cleared: the loop ends and the thread function returns.
CapLoopExit ==
  /\ pc["cap"] = "loop"
  /\ ~exited
  /\ ~run_stream
  /\ Goto("cap", "done")
  /\ UNCHANGED <<loc, ctl, aoiVars, uiData, fitData, capData, camBuf, counters>>
  /\ Track("cap")

\* get_image, line 103, called from line 313.
CapFreeze ==
  /\ pc["cap"] = "freeze"
  /\ ~exited
  /\ camBuf' \in FreezeOutcomes
  /\ Goto("cap", "store")
  /\ UNCHANGED <<loc, ctl, aoiVars, uiData, fitData, capData, counters>>
  /\ Track("cap")

\* get_image, lines 106-111, the subtraction and the store of line 313, and
\* line 314.
CapStore ==
  /\ pc["cap"] = "store"
  /\ ~exited
  /\ imdata_full' = Subtract(camBuf, backgroundImage)
  /\ Goto("cap", "crop_rows")
  /\ UNCHANGED <<loc, ctl, aoiVars, uiData, fitData, imdata, hintplot, vintplot,
                 wxplot, wyplot, camBuf, counters>>
  /\ Track("cap")

\* line 317, the row slice: int(AOI.ymin):int(AOI.ymax).
CapCropRows ==
  /\ pc["cap"] = "crop_rows"
  /\ ~exited
  /\ loc' = [loc EXCEPT !["cap"].rows = <<AOI.ymin, AOI.ymax>>]
  /\ Goto("cap", "crop_cols")
  /\ UNCHANGED <<ctl, aoiVars, uiData, fitData, capData, camBuf, counters>>
  /\ Track("cap")

\* The four bounds the crop of this cycle uses, once the column slice is read.
CropBounds ==
  [xmin |-> AOI.xmin, xmax |-> AOI.xmax,
   ymin |-> loc["cap"].rows[1], ymax |-> loc["cap"].rows[2]]

\* line 317, the column slice int(AOI.xmin):int(AOI.xmax), and the store.
CapCropCols ==
  /\ pc["cap"] = "crop_cols"
  /\ ~exited
  /\ imdata' = Crop(imdata_full, CropBounds.ymin, CropBounds.ymax,
                    CropBounds.xmin, CropBounds.xmax)
  /\ loc' = [loc EXCEPT !["cap"].rows = <<>>]
  /\ Goto("cap", "plots")
  /\ UNCHANGED <<ctl, aoiVars, uiData, fitData, imdata_full, hintplot, vintplot,
                 wxplot, wyplot, camBuf, counters>>
  /\ Track("cap")

\* An empty crop: np.argmax (line 265) and .max() (line 329) raise ValueError.
EmptyFrame(F) == F.h = 0 \/ F.w = 0

\* lines 318-343 on a non-empty crop: the projections, rescaled, and the
\* histories go to the plot lines.
CapPlots ==
  /\ pc["cap"] = "plots"
  /\ ~exited
  /\ ~EmptyFrame(imdata)
  /\ vintplot' = RescaleSeq(SumAxis1(imdata))
  /\ hintplot' = RescaleSeq(SumAxis0(imdata))
  /\ wxplot' = waistListX
  /\ wyplot' = waistListY
  /\ Goto("cap", "mode")
  /\ UNCHANGED <<loc, ctl, aoiVars, uiData, fitData, imdata_full, imdata,
                 camBuf, counters>>
  /\ Track("cap")

\* lines 318-330 on an empty crop: the ValueError is caught nowhere in
\* capture_image, so the thread ends.
CapPlotsRaise ==
  /\ pc["cap"] = "plots"
  /\ ~exited
  /\ EmptyFrame(imdata)
  /\ Goto("cap", "crashed")
  /\ UNCHANGED <<loc, ctl, aoiVars, uiData, fitData, capData, camBuf, counters>>
  /\ Track("cap")

\* lines 345-346: the flag is read; calc_waists is called, or lines 348-357
\* draw and the cycle is complete.
CapMode ==
  /\ pc["cap"] = "mode"
  /\ ~exited
  /\ Goto("cap", IF continuous = 1 THEN "c_xdata" ELSE "loop")
  /\ UNCHANGED <<loc, ctl, aoiVars, uiData, fitData, capData, camBuf, counters>>
  /\ Track("cap")

\* ---------------------------------------------------------- calc_waists
\* Runs in the capture thread (line 346) and in the event loop (line 153).
CalcStep(t, from, to) ==
  /\ pc[t] = from
  /\ ~exited
  /\ Goto(t, to)

\* A calc_waists that projects the uncropped frame, of which Thm_C11 does
\* not hold.
CalcXDataFull(t) ==
  /\ CalcStep(t, "c_xdata", "c_ydata")
  /\ loc' = [loc EXCEPT ![t].xsrc = imdata_full]
  /\ UNCHANGED <<ctl, aoiVars, uiData, fitData, capData, camBuf, counters>>
  /\ Track(t)
\* line 365: xdata = np.sum(self.imdata, axis=0)
CalcXData(t) ==
  /\ CalcStep(t, "c_xdata", "c_ydata")
  /\ loc' = [loc EXCEPT ![t].xsrc = imdata]
  /\ UNCHANGED <<ctl, aoiVars, uiData, fitData, capData, camBuf, counters>>
  /\ Track(t)

xdata(t) == SumAxis0(loc[t].xsrc)
ydata(t) == SumAxis1(loc[t].ysrc)

\* line 366: ydata = np.sum(self.imdata, axis=1), and lines 368-372: the axes
\* and the initial guesses, which read the maxima of the projections and the
\* AOI spans and only feed curve_fit.  On an empty projection .max() raises
\* ValueError.
CalcYData(t) ==
  /\ pc[t] = "c_ydata"
  /\ ~exited
  /\ loc' = [loc EXCEPT ![t].ysrc = imdata]
  /\ Goto(t, IF Len(xdata(t)) = 0 \/ Len(SumAxis1(imdata)) = 0
             THEN "c_except" ELSE "c_fitx")
  /\ UNCHANGED <<ctl, aoiVars, uiData, fitData, capData, camBuf, counters>>
  /\ Track(t)

\* lines 374-375: curve_fit returns; wx = |px[-1]| (line 390).
CalcFitX(t) ==
  /\ CalcStep(t, "c_fitx", "c_fity")
  /\ \E w \in Waists : loc' = [loc EXCEPT ![t].wx = w]
  /\ UNCHANGED <<ctl, aoiVars, uiData, fitData, capData, camBuf, counters>>
  /\ Track(t)

\* lines 374-375: curve_fit raises.
CalcFitXRaise(t) ==
  /\ CalcStep(t, "c_fitx", "c_except")
  /\ UNCHANGED <<loc, ctl, aoiVars, uiData, fitData, capData, camBuf, counters>>
  /\ Track(t)

\* lines 376-377: curve_fit returns; wy = |py[-1]| (line 391).
CalcFitY(t) ==
  /\ CalcStep(t, "c_fity", "c_overlay")
  /\ \E w \in Waists : loc' = [loc EXCEPT ![t].wy = w]
  /\ UNCHANGED <<ctl, aoiVars, uiData, fitData, capData, camBuf, counters>>
  /\ Track(t)

\* A calc_waists that draws the x overlay before the y fit fails, of which
\* Thm_C2 does not hold.
CalcFitYRaiseLate(t) ==
  /\ CalcStep(t, "c_fity", "c_except")
  /\ hintfit' = [w |-> loc[t].wx, n |-> Len(xdata(t))]
  /\ UNCHANGED <<loc, ctl, aoiVars, uiData, waistListX, waistListY, vintfit,
                 waistText, pushedX, pushedY, capData, camBuf, counters>>
  /\ Track(t)
\* lines 376-377: curve_fit raises.
CalcFitYRaise(t) ==
  /\ CalcStep(t, "c_fity", "c_except")
  /\ UNCHANGED <<loc, ctl, aoiVars, uiData, fitData, capData, camBuf, counters>>
  /\ Track(t)

\* lines 379-388: both overlays.
CalcOverlay(t) ==
  /\ CalcStep(t, "c_overlay", "c_roll")
  /\ hintfit' = [w |-> loc[t].wx, n |-> Len(xdata(t))]
  /\ vintfit' = [w |-> loc[t].wy, n |-> Len(ydata(t))]
  /\ UNCHANGED <<loc, ctl, aoiVars, uiData, waistListX, waistListY,
                 waistText, pushedX, pushedY, capData, camBuf, counters>>
  /\ Track(t)

\* lines 396-397
CalcRoll(t) ==
  /\ CalcStep(t, "c_roll", "c_set")
  /\ waistListX' = Roll(waistListX)
  /\ waistListY' = Roll(waistListY)
  /\ UNCHANGED <<loc, ctl, aoiVars, uiData, hintfit, vintfit,
                 waistText, pushedX, pushedY, capData, camBuf, counters>>
  /\ Track(t)

\* lines 398-402, and the return.
CalcSet(t) ==
  /\ CalcStep(t, "c_set", CalcReturn(t))
  /\ waistListX' = [waistListX EXCEPT ![1] = loc[t].wx * PixelSize]
  /\ waistListY' = [waistListY EXCEPT ![1] = loc[t].wy * PixelSize]
  /\ pushedX' = Append(pushedX, loc[t].wx * PixelSize)
  /\ pushedY' = Append(pushedY, loc[t].wy * PixelSize)
  /\ waistText' = <<loc[t].wx * PixelSize, loc[t].wy * PixelSize>>
  /\ loc' = [loc EXCEPT ![t] = NoLocals]
  /\ UNCHANGED <<ctl, aoiVars, uiData, hintfit, vintfit, capData, camBuf, counters>>
  /\ Track(t)

\* lines 403-405: the exception is printed, and the call returns.
CalcExcept(t) ==
  /\ CalcStep(t, "c_except", CalcReturn(t))
  /\ loc' = [loc EXCEPT ![t] = NoLocals]
  /\ UNCHANGED <<ctl, aoiVars, uiData, fitData, capData, camBuf, counters>>
  /\ Track(t)

\* ------------------------------------------------------------ event loop
\* A handler starts when the event loop is idle.  The handlers use self.ax
\* and the plot lines, which capture_image creates in lines 278-310.
UIBegin(bound) ==
  /\ pc["ui"] = "idle"
  /\ ~exited
  /\ pc["cap"] \notin {"unstarted", "setup"}
  /\ nCmds < bound
  /\ nCmds' = nCmds + 1

\* The navigation toolbar (Button_3, line 157) changes the axis limits.
Zoom ==
  /\ UIBegin(MaxCommands)
  /\ axlim' \in ZoomWindows \ {axlim}
  /\ UNCHANGED <<pc, loc, ctl, AOI, aoiPrev, aoiDone, uiData, fitData, capData,
                 camBuf, nCycles, nToggles>>
  /\ Track("ui")

\* On_set_AOI, line 250
SetAOIRows ==
  /\ UIBegin(MaxCommands)
  /\ AOI' = [AOI EXCEPT !.ymin = axlim.y[1], !.ymax = axlim.y[2]]
  /\ aoiPrev' = AOI
  /\ Goto("ui", "set_cols")
  /\ UNCHANGED <<loc, ctl, axlim, aoiDone, uiData, fitData, capData, camBuf,
                 nCycles, nToggles>>
  /\ Track("ui")

\* On_set_AOI, line 251
SetAOICols ==
  /\ pc["ui"] = "set_cols"
  /\ ~exited
  /\ AOI' = [AOI EXCEPT !.xmin = axlim.x[1], !.xmax = axlim.x[2]]
  /\ aoiDone' = AOI'
  /\ Goto("ui", "idle")
  /\ UNCHANGED <<loc, ctl, axlim, aoiPrev, uiData, fitData, capData, camBuf,
                 counters>>
  /\ Track("ui")

\* On_reset_AOI, lines 242-243
ResetAOICols ==
  /\ UIBegin(MaxCommands)
  /\ AOI' = [AOI EXCEPT !.xmin = FullAOI.xmin, !.xmax = FullAOI.xmax]
  /\ aoiPrev' = AOI
  /\ Goto("ui", "reset_rows")
  /\ UNCHANGED <<loc, ctl, axlim, aoiDone, uiData, fitData, capData, camBuf,
                 nCycles, nToggles>>
  /\ Track("ui")

\* On_reset_AOI, lines 244-247
ResetAOIRows ==
  /\ pc["ui"] = "reset_rows"
  /\ ~exited
  /\ AOI' = [AOI EXCEPT !.ymin = FullAOI.ymin, !.ymax = FullAOI.ymax]
  /\ axlim' = [x |-> <<AOI'.xmin, AOI'.xmax>>, y |-> <<AOI'.ymin, AOI'.ymax>>]
  /\ aoiDone' = AOI'
  /\ Goto("ui", "idle")
  /\ UNCHANGED <<loc, ctl, aoiPrev, uiData, fitData, capData, camBuf, counters>>
  /\ Track("ui")

\* Button_1 (line 153): calc_waists in the event loop.
ManualCalc ==
  /\ UIBegin(MaxCommands)
  /\ PushBudget(MaxPushes)
  /\ Goto("ui", "c_xdata")
  /\ UNCHANGED <<loc, ctl, aoiVars, uiData, fitData, capData, camBuf, nCycles, nToggles>>
  /\ Track("ui")

\* recordBackground, line 224 -> get_image, line 103
RecordFreeze ==
  /\ UIBegin(MaxCommands)
  /\ camBuf' \in FreezeOutcomes
  /\ Goto("ui", "bg_copy")
  /\ UNCHANGED <<loc, ctl, aoiVars, uiData, fitData, capData, nCycles, nToggles>>
  /\ Track("ui")

\* get_image, lines 106-111, and the store of line 224
RecordCopy ==
  /\ pc["ui"] = "bg_copy"
  /\ ~exited
  /\ backgroundImage' = camBuf
  /\ Goto("ui", "idle")
  /\ UNCHANGED <<loc, ctl, aoiVars, continuous, saved, fitData, capData, camBuf,
                 counters>>
  /\ Track("ui")

\* toggleContinuousMode, line 227: the right-hand side reads the flag ...
ToggleRead ==
  /\ UIBegin(MaxCommands)
  /\ loc' = [loc EXCEPT !["ui"].flag = continuous]
  /\ Goto("ui", "tog_write")
  /\ UNCHANGED <<ctl, aoiVars, uiData, fitData, capData, camBuf, nCycles, nToggles>>
  /\ Track("ui")

\* A toggle that only ever switches the flag on, of which Thm_C12 does not
\* hold.
ToggleWriteOn ==
  /\ pc["ui"] = "tog_write"
  /\ ~exited
  /\ continuous' = 1
  /\ nToggles' = nToggles + 1
  /\ loc' = [loc EXCEPT !["ui"] = NoLocals]
  /\ Goto("ui", "idle")
  /\ UNCHANGED <<ctl, aoiVars, backgroundImage, saved, fitData, capData, camBuf,
                 nCycles, nCmds>>
  /\ Track("ui")
\* ... and the assignment stores (value read + 1) % 2; line 228 returns.
ToggleWrite ==
  /\ pc["ui"] = "tog_write"
  /\ ~exited
  /\ continuous' = (loc["ui"].flag + 1) % 2
  /\ nToggles' = nToggles + 1
  /\ loc' = [loc EXCEPT !["ui"] = NoLocals]
  /\ Goto("ui", "idle")
  /\ UNCHANGED <<ctl, aoiVars, backgroundImage, saved, fitData, capData, camBuf,
                 nCycles, nCmds>>
  /\ Track("ui")

SaveImage ==
  /\ UIBegin(MaxCommands)
  /\ imdata_full # NoFrame
  /\ LET img == AddU8(imdata_full, backgroundImage)
     IN saved' = [main |-> img,
                  bg |-> IF backgroundImage # NoBackground THEN img ELSE NoFrame]
  /\ UNCHANGED <<pc, loc, ctl, aoiVars, backgroundImage, continuous, fitData,
                 capData, camBuf, nCycles, nToggles>>
  /\ Track("ui")

\* closeEvent, line 254
CloseRequest ==
  /\ pc["ui"] = "idle"
  /\ ~exited
  /\ pc["cap"] # "unstarted"
  /\ run_stream' = FALSE
  /\ Goto("ui", "close_sleep")
  /\ UNCHANGED <<loc, exited, aoiVars, uiData, fitData, capData, camBuf, counters>>
  /\ Track("ui")

\* closeEvent, lines 255-256: time.sleep(1) returns and the event is
\* accepted; the window closes, app.exec_() returns (line 411) and the
\* interpreter exits, taking the daemon thread (line 260) with it.
CloseAccept ==
  /\ pc["ui"] = "close_sleep"
  /\ ~exited
  /\ exited' = TRUE
  /\ Goto("ui", "closed")
  /\ UNCHANGED <<loc, run_stream, aoiVars, uiData, fitData, capData, camBuf,
                 counters>>
  /\ Track("ui")

\* ------------------------------------------------------- specifications
CapNext ==
  \/ Start \/ CapSetup \/ CapLoopEnter \/ CapLoopExit \/ CapFreeze \/ CapStore
  \/ CapCropRows \/ CapCropCols \/ CapPlots \/ CapPlotsRaise \/ CapMode

CalcNext(t) ==
  \/ CalcXData(t) \/ CalcYData(t)
  \/ CalcFitX(t) \/ CalcFitXRaise(t) \/ CalcFitY(t) \/ CalcFitYRaise(t)
  \/ CalcOverlay(t) \/ CalcRoll(t) \/ CalcSet(t) \/ CalcExcept(t)

UINext ==
  \/ Zoom \/ SetAOIRows \/ SetAOICols \/ ResetAOICols \/ ResetAOIRows
  \/ ManualCalc \/ RecordFreeze \/ RecordCopy \/ ToggleRead \/ ToggleWrite \/ SaveImage
  \/ CloseRequest \/ CloseAccept

Next == CapNext \/ UINext \/ \E t \in Threads : CalcNext(t)

Spec == Init /\ [][Next]_vars

\* The program with its capture thread scheduled fairly: the thread is an
\* OS thread, and every step of it returns (the capture waits 10 ms at most).
FairSpec == Spec /\ WF_vars(CapNext \/ CalcNext("cap"))

\* Calls of calc_waists one at a time: the button is clicked again and again
\* while the capture thread, after its setup, is not scheduled.
SerialCalc ==
  /\ pc["ui"] = "idle"
  /\ ~exited
  /\ pc["cap"] = "loop"
  /\ PushBudget(HistLen + MaxOverflow)
  /\ Goto("ui", "c_xdata")
  /\ UNCHANGED <<loc, ctl, aoiVars, uiData, fitData, capData, camBuf, counters>>
  /\ Track("ui")

\* Bound of the serial check: pushed or fitted waists other than 1 pixel.
Marked ==
  Cardinality({i \in 1..Len(pushedX) : pushedX[i] # PixelSize})
  + Cardinality({i \in 1..Len(pushedY) : pushedY[i] # PixelSize})
  + Cardinality({t \in Threads : loc[t].wx > 1})
  + Cardinality({t \in Threads : loc[t].wy > 1})
MarkBudget == Marked <= MaxMarked

SerialFitX == CalcFitX("ui") /\ MarkBudget'
SerialFitY == CalcFitY("ui") /\ MarkBudget'

SerialNext ==
  \/ Start \/ CapSetup \/ SerialCalc
  \/ CalcXData("ui") \/ CalcYData("ui")
  \/ SerialFitX \/ CalcFitXRaise("ui") \/ SerialFitY \/ CalcFitYRaise("ui")
  \/ CalcOverlay("ui") \/ CalcRoll("ui") \/ CalcSet("ui") \/ CalcExcept("ui")

SpecSerial == Init /\ [][SerialNext]_vars

\* ================================================================ claims

\* The history a buffer of capacity HistLen holds after the pushes of log
\* (oldest first): the last min(n, HistLen) values newest first, then zeros.
Expected(log) ==
  [i \in 1..HistLen |-> IF i <= Len(log) THEN log[Len(log) - i + 1] ELSE 0]

\* C1: after any sequence of n successful fits executed one at a time, each
\* axis' history has exactly 20 entries: the last min(n,20) pushed values,
\* newest first, then zeros (between the calls, and inside a call before the
\* shift and after the write).
Thm_C1 ==
  (\A t \in Threads : pc[t] # "c_set") =>
     /\ waistListX = Expected(pushedX)
     /\ waistListY = Expected(pushedY)
     /\ Len(waistListX) = HistLen /\ Len(waistListY) = HistLen

\* 25 values pushed, five of them discarded, and a value that differs from
\* the newest one still in the buffer.
Witness_C1 ==
  /\ Len(pushedX) = HistLen + MaxOverflow
  /\ pc["ui"] = "idle"
  /\ \E i \in 2..HistLen : waistListX[i] # waistListX[1]

\* C2: when a call of calc_waists fails (either fit raises, or a projection
\* is empty), the histories, the overlays and the waist text are what they
\* were when the call began, but for what the other thread wrote meanwhile;
\* and the capture thread goes on to line 312.
Thm_C2 ==
  [][ /\ \A t \in Threads : pc'[t] = "c_except" => Results' = expect'[t]
      /\ (pc["cap"] = "c_except" /\ pc'["cap"] # "c_except") => pc'["cap"] = "loop"
    ]_vars

\* The y fit of the capture thread has failed after its x fit succeeded,
\* with results of an earlier call in place.
Witness_C2 ==
  /\ pc["cap"] = "c_except"
  /\ loc["cap"].wx # 0
  /\ Len(pushedX) > 0
  /\ waistText # NoText

ValidRect(a) ==
  /\ 0 <= a.xmin /\ a.xmin < a.xmax /\ a.xmax <= 2 * SensorW
  /\ 0 <= a.ymin /\ a.ymin < a.ymax /\ a.ymax <= 2 * SensorH

\* C3: in every reachable state the AOI satisfies
\* 0 <= xmin < xmax <= sensorWidth and 0 <= ymin < ymax <= sensorHeight.
Claim_C3 == ValidRect(AOI)

\* The rectangle On_set_AOI is asked to apply.
Requested == [xmin |-> axlim.x[1], xmax |-> axlim.x[2],
              ymin |-> axlim.y[1], ymax |-> axlim.y[2]]
SetAOIStep ==
  \/ pc["ui"] = "idle" /\ pc'["ui"] = "set_cols"
  \/ pc["ui"] = "set_cols" /\ pc'["ui"] = "idle"

\* C4: an invalid set-AOI request leaves all four AOI bounds as they were,
\* and the capture loop is not ended by it.
Claim_C4 ==
  [][ /\ (SetAOIStep /\ ~ValidRect(Requested)) => AOI' = AOI
      /\ pc'["cap"] # "crashed" ]_vars

\* C5: what a handler in the event loop reads belongs to one capture cycle:
\* once the button's calc_waists has read both projections, they come from
\* the same cropped frame.
Claim_C5 ==
  pc["ui"] \in {"c_fitx", "c_fity", "c_overlay", "c_roll", "c_set"} =>
     loc["ui"].xsrc = loc["ui"].ysrc

\* C6: the four bounds the capture loop crops with are all from the AOI
\* before the AOI handler running or last run, or all from the AOI after it.
Claim_C6 ==
  [][ (pc["cap"] = "crop_cols" /\ pc'["cap"] = "plots") =>
         CropBounds \in {aoiPrev, aoiDone} ]_vars

Started == pc["cap"] # "unstarted"
LoopEnded == pc["cap"] \in {"done", "crashed"}

\* C7: once the run flag is cleared, no check of the loop condition starts
\* another capture, and the capture thread eventually leaves the loop
\* (or the process is gone first).
Thm_C7 ==
  /\ [][ (Started /\ ~run_stream /\ pc["cap"] = "loop") =>
            pc'["cap"] \in {"loop", "done"} ]_vars
  /\ ((Started /\ ~run_stream) ~> (LoopEnded \/ exited))

\* The loop has ended by observing the flag, after a cycle that was in
\* flight when the flag was cleared.
Witness_C7 ==
  /\ pc["cap"] = "done"
  /\ pc["ui"] = "close_sleep"
  /\ nCycles > 0

\* C8: the shutdown completes only after the capture loop has finished its
\* cycle and stopped.
Claim_C8 == exited => LoopEnded

\* The controller's state, read off the thread and the flag.
StateRank ==
  IF ~Started THEN 0            \* Idle
  ELSE IF LoopEnded THEN 3      \* Stopped
  ELSE IF run_stream THEN 1     \* Running
  ELSE 2                        \* Stopping

\* C9: the state only advances Idle -> Running -> Stopping -> Stopped, the
\* capture loop is started once, and after a stop request the run flag is
\* never set again.
Thm_C9 ==
  [][ /\ StateRank' >= StateRank
      /\ (pc'["cap"] = "setup" /\ pc["cap"] # "setup") => StateRank = 0
      /\ (Started /\ ~run_stream) => ~run_stream' ]_vars

\* All four states have been passed through.
Witness_C9 ==
  /\ StateRank = 3
  /\ ~run_stream
  /\ pc["ui"] = "closed"
  /\ nCycles > 0

\* C10: no failed cycle ends the loop: the capture thread leaves the loop
\* only with the run flag cleared.
Claim_C10 == LoopEnded => ~run_stream

\* A step of the calc_waists that the button started.
UIStep(from, to) == pc["ui"] = from /\ pc'["ui"] \in to

\* C11: a call of calc_waists from the button projects the cropped frame as
\* it is when read; if it fits, it shifts each history once and writes one
\* value, its own waist, at the front, so that a history no other push has
\* disturbed holds all the values pushed, newest first; and from its first
\* step to its last, whatever the flag, it leaves the flag, the AOI and the
\* background alone.
Thm_C11 ==
  [][ /\ UIStep("c_xdata", {"c_ydata"}) => loc'["ui"].xsrc = imdata
      /\ UIStep("c_ydata", {"c_fitx", "c_except"}) => loc'["ui"].ysrc = imdata
      /\ UIStep("c_roll", {"c_set"}) =>
            waistListX' = Roll(waistListX) /\ waistListY' = Roll(waistListY)
      /\ UIStep("c_set", {"idle"}) =>
            /\ waistListX' = [waistListX EXCEPT ![1] = loc["ui"].wx * PixelSize]
            /\ waistListY' = [waistListY EXCEPT ![1] = loc["ui"].wy * PixelSize]
            /\ Len(pushedX') = Len(pushedX) + 1
            /\ Len(pushedY') = Len(pushedY) + 1
            /\ (pc["cap"] # "c_set" /\ waistListX = Roll(Expected(pushedX)))
                  => waistListX' = Expected(pushedX')
            /\ (pc["cap"] # "c_set" /\ waistListY = Roll(Expected(pushedY)))
                  => waistListY' = Expected(pushedY')
      /\ InCalc(pc["ui"]) =>
            /\ continuous' = continuous
            /\ AOI' = AOI
            /\ backgroundImage' = backgroundImage
    ]_vars

\* The button's calc_waists has pushed a value while the flag was 1, before
\* any cycle of the capture loop.
Witness_C11 ==
  /\ pc["ui"] = "idle"
  /\ continuous = 1
  /\ nCycles = 0
  /\ Len(pushedX) = 1
  /\ waistListX[1] = pushedX[1]
  /\ waistListX[1] # 0

\* C12: the flag is always 0 or 1 and equals the number of completed toggle
\* commands mod 2, whatever the capture loop did meanwhile; only the store
\* of toggleContinuousMode changes it.
Thm_C12 ==
  /\ [](continuous \in {0, 1} /\ continuous = nToggles % 2)
  /\ [][ continuous' # continuous => UIStep("tog_write", {"idle"}) ]_vars

\* Two toggles are done, with a capture cycle begun in between or around.
Witness_C12 ==
  /\ nToggles = 2
  /\ continuous = 0
  /\ nCycles > 0
  /\ pc["ui"] = "idle"

\* What the display is to get for a projection: zeros kept as zeros, a
\* positive maximum brought to 255, and no inf or nan in either case.
RescaledSafely(proj, plot) ==
  /\ \A i \in 1..Len(plot) : plot[i] \notin {NaN, PosInf, NegInf}
  /\ SeqMax(proj) = 0 => plot = [i \in 1..Len(proj) |-> 0]
  /\ SeqMax(proj) > 0 => SeqMax(plot) = FullScale

\* C13: after the rescaling of a cycle (lines 326-335) a projection whose
\* maximum is 0 is shown as zeros, nothing was divided by zero, and a
\* positive maximum is shown as 255.
Claim_C13 ==
  pc["cap"] = "mode" =>
     /\ RescaledSafely(SumAxis1(imdata), vintplot)
     /\ RescaledSafely(SumAxis0(imdata), hintplot)

\* C14: in every cycle whose AOI satisfies the AOI invariant, the cropped
\* frame of line 317 has xmax - xmin columns and ymax - ymin rows (the
\* lengths of the horizontal and of the vertical projection, lines 326-327);
\* the bounds are in half pixels.
Claim_C14 ==
  [][ (pc["cap"] = "crop_cols" /\ pc'["cap"] = "plots" /\ ValidRect(CropBounds)) =>
         /\ 2 * Len(SumAxis0(imdata')) = CropBounds.xmax - CropBounds.xmin
         /\ 2 * Len(SumAxis1(imdata')) = CropBounds.ymax - CropBounds.ymin ]_vars

\* The pixel of the background in effect: 0 while none was recorded.
BgPixel(r, c) ==
  IF backgroundImage = NoBackground THEN 0 ELSE backgroundImage.px[r][c]

\* C15: the residual frame a cycle stores is, pixel by pixel, the frame
\* copied from the camera minus the background recorded last (minus 0 if
\* none was), and the background changes only when recordBackground stores
\* a new one.
Thm_C15 ==
  [][ /\ (pc["cap"] = "store" /\ pc'["cap"] = "crop_rows") =>
            /\ imdata_full'.h = camBuf.h /\ imdata_full'.w = camBuf.w
            /\ \A r \in 1..camBuf.h : \A c \in 1..camBuf.w :
                  imdata_full'.px[r][c] = camBuf.px[r][c] - BgPixel(r, c)
      /\ backgroundImage' # backgroundImage => UIStep("bg_copy", {"idle"})
    ]_vars

\* A cycle has subtracted a recorded background brighter than the frame.
Witness_C15 ==
  /\ pc["cap"] = "crop_rows"
  /\ backgroundImage # NoBackground
  /\ \E r \in 1..imdata_full.h : \E c \in 1..imdata_full.w :
        imdata_full.px[r][c] < 0

\* A frame as an 8-bit image file holds it.
AsU8(F) == AddU8(F, NoBackground)

\* C16: an export writes the current residual frame to the main file, and
\* the recorded background, if there is one, to the '-bg' file; without a
\* recorded background it writes no '-bg' file.
Claim_C16 ==
  [][ saved' # saved =>
        /\ saved'.main = AsU8(imdata_full)
        /\ saved'.bg = IF backgroundImage = NoBackground THEN NoFrame
                       ELSE AsU8(backgroundImage) ]_vars

\* C17: when a cycle with the flag set has pushed its waists and goes on to
\* draw (lines 348-357), the histories handed to the plot have that cycle's
\* waists at the front.
Claim_C17 ==
  [][ (pc["cap"] = "c_set" /\ pc'["cap"] = "loop") =>
         /\ wxplot'[1] = loc["cap"].wx * PixelSize
         /\ wyplot'[1] = loc["cap"].wy * PixelSize ]_vars

\* The log with its last two values in the other order.
SwapLast(log) ==
  IF Len(log) < 2 THEN log
  ELSE [i \in 1..Len(log) |->
          IF i = Len(log) THEN log[Len(log) - 1]
          ELSE IF i = Len(log) - 1 THEN log[Len(log)] ELSE log[i]]

\* The history after the pushes of log, the last two in either order.
Serialised(hist, log) == hist \in {Expected(log), Expected(SwapLast(log))}

\* C18: whenever no call of calc_waists is between its shift and its write,
\* each history is what the pushes made so far give when done one after
\* another, two concurrent ones in either order.
Claim_C18 ==
  (\A t \in Threads : pc[t] # "c_set") =>
     /\ Serialised(waistListX, pushedX)
     /\ Serialised(waistListY, pushedY)

\* get_image is running in the capture thread, for recordBackground.
CapInGetImage == pc["cap"] \in {"freeze", "store"}
UIInGetImage == pc["ui"] = "bg_copy"

\* C19: the capture loop and recordBackground are never inside get_image at
\* the same time.
Claim_C19 == ~(CapInGetImage /\ UIInGetImage)

====
